---- MODULE Spec2Model ----
(***************************************************************************)
(* Model of homework.py: a bot that polls the homework-review API every    *)
(* RETRY_TIME seconds and relays status changes to a Telegram chat.        *)
(*                                                                         *)
(* Python values are tagged records (None, PyStr, PyInt, PyList, PyDict),  *)
(* exceptions are records naming the class and its base.  The Cyrillic     *)
(* string literals of the source are written transliterated, because the   *)
(* module's strings are ASCII.                                             *)
(***************************************************************************)
EXTENDS Integers, Sequences, FiniteSets, TLC

VARIABLES
    env,                \* os.getenv results for the three identifiers
    pc,                 \* position of main()
    current_timestamp,  \* main's current_timestamp
    clock,              \* int(time.time()) if read now
    reply,              \* what requests.get did in this cycle's get_api_answer
    response,           \* main's local `response`
    homeworks,          \* main's local `homeworks`
    error,              \* the exception bound by `except Exception as error`
    propagating,        \* an exception is leaving the try statement
    cur                 \* what the cycle in progress (or just finished) did

vars == <<env, pc, current_timestamp, clock, reply, response, homeworks,
          error, propagating, cur>>

-----------------------------------------------------------------------------
(* Bounds of the model *)

MaxCycles == 3      \* poll cycles started in one run
MaxHomeworks == 2   \* length of a `homeworks` list in a response
MaxDate == 1        \* integer current_date values are 0..MaxDate

-----------------------------------------------------------------------------
(* Python values *)

None == [type |-> "NoneType"]
PyStr(s) == [type |-> "str", s |-> s]
PyInt(i) == [type |-> "int", i |-> i]
PyList(items) == [type |-> "list", items |-> items]
PyDict(d) == [type |-> "dict", d |-> d]

EmptyDict == PyDict([k \in {} |-> None])

\* bool(v)
Truthy(v) ==
    CASE v.type = "NoneType" -> FALSE
      [] v.type = "str" -> v.s # ""
      [] v.type = "int" -> v.i # 0
      [] v.type = "list" -> Len(v.items) > 0
      [] v.type = "dict" -> DOMAIN v.d # {}

\* key in d
HasKey(d, key) == key \in DOMAIN d.d

\* d.get(key)
DictGet(d, key) == IF key \in DOMAIN d.d THEN d.d[key] ELSE None

(* Exceptions: the class name, its base, and str(error).  The source raises *)
(* its exceptions without arguments, so their text is empty.               *)
PyException(name, msg) == [name |-> name, base |-> "Exception", msg |-> msg]
TypeError == PyException("TypeError", "")
KeyError == PyException("KeyError", "")
ValueError == PyException("ValueError", "")
AttributeError ==
    PyException("AttributeError", "'str' object has no attribute 'get'")
RequestException == PyException("RequestException", "transport failure")
JSONDecodeError == PyException("JSONDecodeError", "Expecting value")
\* `x in d` hashes x: a list or a dict has no hash
UnhashableTypeError(v) ==
    PyException("TypeError", "unhashable type: '" \o v.type \o "'")
\* exceptions.EmptyAPIResponseError: the API-unavailable error, a recoverable
\* error caught at the loop boundary.
EmptyAPIResponseError == PyException("EmptyAPIResponseError", "")
NoError == [name |-> "", base |-> "", msg |-> ""]

\* `except Exception` matches exc
ExceptException(exc) == exc.base = "Exception"

Returned(v) == [raised |-> FALSE, exc |-> NoError, value |-> v]
Raised(e) == [raised |-> TRUE, exc |-> e, value |-> None]

-----------------------------------------------------------------------------
(* Program constants *)

RETRY_TIME == 600
HTTPStatusOK == 200

HOMEWORK_STATUSES ==
    [approved |-> "Rabota proverena: revyueru vsyo ponravilos. Ura!",
     reviewing |-> "Rabota vzyata na proverku revyuerom.",
     rejected |-> "Rabota proverena: u revyuera est zamechaniya."]

-----------------------------------------------------------------------------
(* Functions of homework.py *)

\* send_message without its try/except: the bot's exception reaches the caller
send_message_Propagating(bot_raises) ==
    [raised |-> bot_raises,
     exc |-> IF bot_raises THEN PyException("TelegramError", "") ELSE NoError,
     attempts |-> 1, delivered |-> ~bot_raises]

\* bot.send_message(TELEGRAM_CHAT_ID, message) inside try/except Exception:
\* whatever the bot does, nothing is raised and the send is tried once.
send_message(bot_raises) ==
    [raised |-> FALSE, exc |-> NoError, attempts |-> 1,
     delivered |-> ~bot_raises]

\* get_api_answer without the status check: response.json() whatever the status
get_api_answer_AnyStatus(timestamp_arg, now, http) ==
    LET timestamp == IF Truthy(timestamp_arg) THEN timestamp_arg ELSE PyInt(now)
        r == IF http.transport_ok /\ http.json_ok
             THEN Returned(http.body)
             ELSE Raised(EmptyAPIResponseError)
    IN  [raised |-> r.raised, exc |-> r.exc, value |-> r.value,
         from_date |-> timestamp, json_parsed |-> http.transport_ok]

\* get_api_answer with `return response.json()` placed after the try
\* statement: a body that does not decode raises the decoder's own error
get_api_answer_JSONOutsideTry(timestamp_arg, now, http) ==
    LET timestamp == IF Truthy(timestamp_arg) THEN timestamp_arg ELSE PyInt(now)
        r == IF ~http.transport_ok \/ http.status_code # HTTPStatusOK
             THEN Raised(EmptyAPIResponseError)
             ELSE IF http.json_ok THEN Returned(http.body)
             ELSE Raised(JSONDecodeError)
    IN  [raised |-> r.raised, exc |-> r.exc, value |-> r.value,
         from_date |-> timestamp,
         json_parsed |-> http.transport_ok /\ http.status_code = HTTPStatusOK]

\* http: [transport_ok, status_code, json_ok, body], what requests.get and
\* response.json() do.  now: int(time.time()).
get_api_answer(timestamp_arg, now, http) ==
    LET timestamp == IF Truthy(timestamp_arg) THEN timestamp_arg ELSE PyInt(now)
        inner ==
            IF ~http.transport_ok THEN
                [r |-> Raised(RequestException), json_parsed |-> FALSE]
            ELSE IF http.status_code = HTTPStatusOK THEN
                IF http.json_ok
                THEN [r |-> Returned(http.body), json_parsed |-> TRUE]
                ELSE [r |-> Raised(JSONDecodeError), json_parsed |-> TRUE]
            ELSE [r |-> Raised(EmptyAPIResponseError), json_parsed |-> FALSE]
        outer ==
            IF inner.r.raised /\ ExceptException(inner.r.exc)
            THEN Raised(EmptyAPIResponseError)
            ELSE inner.r
    IN  [raised |-> outer.raised, exc |-> outer.exc, value |-> outer.value,
         from_date |-> timestamp, json_parsed |-> inner.json_parsed]

\* check_response with `and` for `or` in the test of the keys
check_response_EitherKey(resp) ==
    IF resp.type # "dict" THEN Raised(TypeError)
    ELSE IF ~HasKey(resp, "homeworks") /\ ~HasKey(resp, "current_date")
    THEN Raised(KeyError)
    ELSE LET hws == DictGet(resp, "homeworks")
         IN  IF hws.type # "list" THEN Raised(TypeError) ELSE Returned(hws)

\* check_response that makes a list of what it finds under `homeworks`
\* (`list(response.get('homeworks') or [])`) where the source tests the type
check_response_Coercing(resp) ==
    IF resp.type # "dict" THEN Raised(TypeError)
    ELSE IF ~HasKey(resp, "homeworks") \/ ~HasKey(resp, "current_date")
    THEN Raised(KeyError)
    ELSE LET hws == DictGet(resp, "homeworks")
         IN  IF hws.type # "list" THEN Returned(PyList(<<>>)) ELSE Returned(hws)

\* check_response with the test of lines 89-92 placed before that of
\* lines 85-87
check_response_ListFirst(resp) ==
    IF resp.type # "dict" THEN Raised(TypeError)
    ELSE LET hws == DictGet(resp, "homeworks")
         IN  IF hws.type # "list" THEN Raised(TypeError)
             ELSE IF ~HasKey(resp, "homeworks") \/ ~HasKey(resp, "current_date")
             THEN Raised(KeyError)
             ELSE Returned(hws)

check_response(resp) ==
    IF resp.type # "dict" THEN Raised(TypeError)
    ELSE IF ~HasKey(resp, "homeworks") \/ ~HasKey(resp, "current_date")
    THEN Raised(KeyError)
    ELSE LET hws == DictGet(resp, "homeworks")
         IN  IF hws.type # "list" THEN Raised(TypeError) ELSE Returned(hws)

\* parse_status with HOMEWORK_STATUSES.get(homework_status) for the membership
\* test and the subscript: an unknown status formats as None
parse_status_DefaultText(homework) ==
    IF ~Truthy(homework) THEN Raised(ValueError)
    ELSE IF homework.type # "dict" THEN Raised(AttributeError)
    ELSE LET homework_name == DictGet(homework, "homework_name")
             homework_status == DictGet(homework, "status")
             known == /\ homework_status.type = "str"
                      /\ homework_status.s \in DOMAIN HOMEWORK_STATUSES
         IN  IF ~Truthy(homework_name) THEN Raised(KeyError)
             ELSE IF homework_status.type \in {"list", "dict"}
             THEN Raised(UnhashableTypeError(homework_status))
             ELSE Returned(PyStr("Izmenilsya status proverki raboty \""
                                 \o homework_name.s \o "\". "
                                 \o IF known
                                    THEN HOMEWORK_STATUSES[homework_status.s]
                                    ELSE "None"))

parse_status(homework) ==
    IF ~Truthy(homework) THEN Raised(ValueError)
    ELSE IF homework.type # "dict" THEN Raised(AttributeError)
    ELSE LET homework_name == DictGet(homework, "homework_name")
             homework_status == DictGet(homework, "status")
         IN  IF ~Truthy(homework_name) THEN Raised(KeyError)
             ELSE IF homework_status.type \in {"list", "dict"}
             THEN Raised(UnhashableTypeError(homework_status))
             ELSE IF ~(homework_status.type = "str"
                       /\ homework_status.s \in DOMAIN HOMEWORK_STATUSES)
             THEN Raised(KeyError)
             ELSE Returned(PyStr("Izmenilsya status proverki raboty \""
                                 \o homework_name.s \o "\". "
                                 \o HOMEWORK_STATUSES[homework_status.s]))

\* check_tokens with any() for all()
check_tokens_Any(e) ==
    \/ Truthy(e.PRACTICUM_TOKEN)
    \/ Truthy(e.TELEGRAM_TOKEN)
    \/ Truthy(e.TELEGRAM_CHAT_ID)

check_tokens(e) ==
    /\ Truthy(e.PRACTICUM_TOKEN)
    /\ Truthy(e.TELEGRAM_TOKEN)
    /\ Truthy(e.TELEGRAM_CHAT_ID)

\* homeworks[-1]
HomeworkToReport_Last(hws) == hws.items[Len(hws.items)]

\* homeworks[0]
HomeworkToReport(hws) == hws.items[1]

\* f'Сбой в работе программы: {error}'
FailureMessage(exc) == "Sboy v rabote programmy: " \o exc.msg

-----------------------------------------------------------------------------
(* Inputs: the environment, and what the API server and the bot may do *)

Tokens == {None, PyStr(""), PyStr("token")}

Environments ==
    [PRACTICUM_TOKEN : Tokens, TELEGRAM_TOKEN : Tokens, TELEGRAM_CHAT_ID : Tokens]

StatusValues == {PyStr("approved"), PyStr("reviewing"), PyStr("rejected"),
                 PyStr("unknown")}

\* what may stand first in a `homeworks` list
HomeworkValues ==
    {None, PyStr("hw1"), EmptyDict,
     PyDict([homework_name |-> PyStr("hw1")]),
     PyDict([status |-> PyStr("approved")]),
     PyDict([homework_name |-> PyStr(""), status |-> PyStr("approved")]),
     PyDict([status |-> PyStr("unknown")]),
     PyDict([homework_name |-> PyStr(""), status |-> PyStr("unknown")]),
     PyDict([homework_name |-> PyStr("hw2"), status |-> PyStr("reviewing")]),
     PyDict([homework_name |-> PyStr("hw1"), status |-> PyList(<<>>)])}
    \cup {PyDict([homework_name |-> PyStr("hw1"), status |-> s]) :
            s \in StatusValues}

\* what may follow the first entry
OlderHomeworks ==
    {EmptyDict,
     PyDict([homework_name |-> PyStr("hw2"), status |-> PyStr("rejected")])}

RECURSIVE OlderLists(_)
OlderLists(n) ==
    IF n = 0 THEN {<<>>}
    ELSE LET shorter == OlderLists(n - 1)
         IN  shorter \cup {<<h>> \o l : h \in OlderHomeworks, l \in shorter}

HomeworkLists ==
    {<<>>} \cup {<<h>> \o l : h \in HomeworkValues,
                              l \in OlderLists(MaxHomeworks - 1)}

\* values of the `homeworks` key
HomeworksValues == {PyList(l) : l \in HomeworkLists} \cup {None, EmptyDict}

\* values of the `current_date` key
DateValues ==
    {PyInt(i) : i \in 0..MaxDate} \cup {None, PyStr("2022-01-01"), PyStr("")}

\* decoded JSON bodies
Responses ==
    {PyDict([homeworks |-> h, current_date |-> c]) :
        h \in HomeworksValues, c \in DateValues}
    \cup {PyDict([current_date |-> c]) : c \in {PyInt(MaxDate), None}}
    \cup {PyDict([homeworks |-> h]) :
            h \in {PyList(<<>>), PyList(<<EmptyDict>>), None}}
    \cup {EmptyDict, None, PyList(<<>>)}

HttpResult(transport_ok, status_code, json_ok, body) ==
    [transport_ok |-> transport_ok, status_code |-> status_code,
     json_ok |-> json_ok, body |-> body]

\* no request has been made
NoReply == HttpResult(FALSE, 0, FALSE, None)

\* what requests.get and response.json() may do
HttpOutcomes ==
    {HttpResult(FALSE, 0, FALSE, None)}
    \cup {HttpResult(TRUE, code, j, None) :
            code \in {500, 404}, j \in BOOLEAN}
    \cup {HttpResult(TRUE, HTTPStatusOK, FALSE, None)}
    \cup {HttpResult(TRUE, HTTPStatusOK, TRUE, body) : body \in Responses}

-----------------------------------------------------------------------------
(* main() *)

\* the wall-clock time at which the process starts: some positive time.
\* The clock is read at lines 58 and 136 only; it advances in time.sleep, the
\* time spent in the other calls is taken to be zero.
StartTime == RETRY_TIME

NoCycle ==
    [n |-> 0, ts_before |-> None, from_date |-> None, now |-> 0,
     json_parsed |-> FALSE,
     fetch_exc |-> NoError, validated |-> FALSE, valid_exc |-> NoError,
     formatted |-> <<>>, format_exc |-> NoError, sends |-> <<>>,
     handled |-> FALSE, advanced |-> FALSE, sleeps |-> 0, slept |-> 0]

Init ==
    /\ env \in Environments
    /\ pc = "Idle"
    /\ current_timestamp = None
    /\ clock = StartTime
    /\ reply = NoReply
    /\ response = None
    /\ homeworks = None
    /\ error = NoError
    /\ propagating = FALSE
    /\ cur = NoCycle

\* an exception raised inside the try block: `except Exception` takes it, or
\* it leaves through `finally`
RaiseInTry(exc) ==
    IF ExceptException(exc)
    THEN /\ pc' = "Handling"
         /\ error' = exc
         /\ propagating' = propagating
    ELSE /\ pc' = "Sleeping"
         /\ error' = error
         /\ propagating' = TRUE

\* lines 127-136
Startup ==
    /\ pc = "Idle"
    /\ IF ~check_tokens(env)
       THEN /\ pc' = "Exited"
            /\ current_timestamp' = current_timestamp
       ELSE /\ pc' = "Fetching"
            /\ current_timestamp' = PyInt(clock)
    /\ UNCHANGED <<env, clock, reply, response, homeworks, error, propagating,
                   cur>>

\* Fetch with a get_api_answer that logs its error and returns None where
\* the source raises: the cycle goes on to validation
Fetch_ContinuingAfterFailure ==
    /\ pc = "Fetching"
    /\ cur.n < MaxCycles
    /\ \E http \in HttpOutcomes :
        LET r == get_api_answer(current_timestamp, clock, http)
        IN  /\ reply' = http
            /\ cur' = [NoCycle EXCEPT
                        !.n = cur.n + 1,
                        !.ts_before = current_timestamp,
                        !.from_date = r.from_date,
                        !.now = clock,
                        !.json_parsed = r.json_parsed,
                        !.fetch_exc = r.exc]
            /\ clock' = clock
            /\ pc' = "Validating"
            /\ response' = r.value
            /\ UNCHANGED <<error, propagating>>
    /\ UNCHANGED <<env, current_timestamp, homeworks>>

\* line 140
Fetch ==
    /\ pc = "Fetching"
    /\ cur.n < MaxCycles
    /\ \E http \in HttpOutcomes :
        LET r == get_api_answer(current_timestamp, clock, http)
        IN  /\ reply' = http
            /\ cur' = [NoCycle EXCEPT
                        !.n = cur.n + 1,
                        !.ts_before = current_timestamp,
                        !.from_date = r.from_date,
                        !.now = clock,
                        !.json_parsed = r.json_parsed,
                        !.fetch_exc = r.exc]
            /\ clock' = clock
            /\ IF r.raised
               THEN /\ RaiseInTry(r.exc)
                    /\ response' = response
               ELSE /\ pc' = "Validating"
                    /\ response' = r.value
                    /\ UNCHANGED <<error, propagating>>
    /\ UNCHANGED <<env, current_timestamp, homeworks>>

\* Validate with line 148 moved into the `if homeworks:` branch
Validate_AdvanceOnlyWhenNotified ==
    /\ pc = "Validating"
    /\ LET r == check_response(response)
       IN  /\ cur' = [cur EXCEPT !.validated = TRUE, !.valid_exc = r.exc]
           /\ IF r.raised
              THEN /\ RaiseInTry(r.exc)
                   /\ homeworks' = homeworks
              ELSE /\ homeworks' = r.value
                   /\ pc' = IF Truthy(r.value) THEN "Notifying" ELSE "Sleeping"
                   /\ UNCHANGED <<error, propagating>>
    /\ UNCHANGED <<env, current_timestamp, clock, reply, response>>

\* Validate with a check_response that takes the list out of the response
\* (`response.pop('homeworks')` for line 89)
Validate_ConsumingResponse ==
    /\ pc = "Validating"
    /\ LET r == check_response(response)
       IN  /\ cur' = [cur EXCEPT !.validated = TRUE, !.valid_exc = r.exc]
           /\ IF r.raised
              THEN /\ RaiseInTry(r.exc)
                   /\ homeworks' = homeworks
                   /\ response' = response
              ELSE /\ homeworks' = r.value
                   /\ response' =
                        PyDict([k \in DOMAIN response.d \ {"homeworks"} |->
                                    response.d[k]])
                   /\ pc' = IF Truthy(r.value) THEN "Notifying" ELSE "Advancing"
                   /\ UNCHANGED <<error, propagating>>
    /\ UNCHANGED <<env, current_timestamp, clock, reply>>

\* lines 141-142, 145-146
Validate ==
    /\ pc = "Validating"
    /\ LET r == check_response(response)
       IN  /\ cur' = [cur EXCEPT !.validated = TRUE, !.valid_exc = r.exc]
           /\ IF r.raised
              THEN /\ RaiseInTry(r.exc)
                   /\ homeworks' = homeworks
              ELSE /\ homeworks' = r.value
                   /\ pc' = IF Truthy(r.value) THEN "Notifying" ELSE "Advancing"
                   /\ UNCHANGED <<error, propagating>>
    /\ UNCHANGED <<env, current_timestamp, clock, reply, response>>

\* Notify that skips line 148 when the send failed (`if send_message(...):`
\* around the assignment): the window is asked again
Notify_AdvanceOnlyWhenDelivered ==
    /\ pc = "Notifying"
    /\ \E bot_raises \in BOOLEAN :
        LET homework == HomeworkToReport(homeworks)
            p == parse_status(homework)
            sm == send_message(bot_raises)
        IN  IF p.raised
            THEN /\ cur' = [cur EXCEPT !.formatted = Append(@, homework),
                                       !.format_exc = p.exc]
                 /\ RaiseInTry(p.exc)
            ELSE /\ cur' = [cur EXCEPT
                             !.formatted = Append(@, homework),
                             !.sends = Append(@, [kind |-> "content",
                                                  text |-> p.value.s,
                                                  attempts |-> sm.attempts,
                                                  delivered |-> sm.delivered])]
                 /\ pc' = IF sm.delivered THEN "Advancing" ELSE "Sleeping"
                 /\ UNCHANGED <<error, propagating>>
    /\ UNCHANGED <<env, current_timestamp, clock, reply, response, homeworks>>

\* lines 143-144
Notify ==
    /\ pc = "Notifying"
    /\ \E bot_raises \in BOOLEAN :
        LET homework == HomeworkToReport(homeworks)
            p == parse_status(homework)
            sm == send_message(bot_raises)
        IN  IF p.raised
            THEN /\ cur' = [cur EXCEPT !.formatted = Append(@, homework),
                                       !.format_exc = p.exc]
                 /\ RaiseInTry(p.exc)
            ELSE /\ cur' = [cur EXCEPT
                             !.formatted = Append(@, homework),
                             !.sends = Append(@, [kind |-> "content",
                                                  text |-> p.value.s,
                                                  attempts |-> sm.attempts,
                                                  delivered |-> sm.delivered])]
                 /\ IF sm.raised
                    THEN RaiseInTry(sm.exc)
                    ELSE /\ pc' = "Advancing"
                         /\ UNCHANGED <<error, propagating>>
    /\ UNCHANGED <<env, current_timestamp, clock, reply, response, homeworks>>

\* Advance reading the date from the list (`homeworks.get('current_date')`):
\* a list has no `get`, the statement raises after the content send
Advance_FromHomeworks ==
    /\ pc = "Advancing"
    /\ RaiseInTry(PyException("AttributeError",
                              "'list' object has no attribute 'get'"))
    /\ cur' = cur
    /\ UNCHANGED <<env, current_timestamp, clock, reply, response, homeworks>>

\* line 148
Advance ==
    /\ pc = "Advancing"
    /\ current_timestamp' = DictGet(response, "current_date")
    /\ cur' = [cur EXCEPT !.advanced = TRUE]
    /\ pc' = "Sleeping"
    /\ UNCHANGED <<env, clock, reply, response, homeworks, error, propagating>>

\* Handle that also moves the window to the present
Handle_ResettingTimestamp ==
    /\ pc = "Handling"
    /\ \E bot_raises \in BOOLEAN :
        LET message == FailureMessage(error)
            sm == send_message(bot_raises)
        IN  /\ cur' = [cur EXCEPT
                        !.handled = TRUE,
                        !.sends = Append(@, [kind |-> "failure",
                                             text |-> message,
                                             attempts |-> sm.attempts,
                                             delivered |-> sm.delivered])]
            /\ propagating' = (propagating \/ sm.raised)
    /\ pc' = "Sleeping"
    /\ current_timestamp' = PyInt(clock)
    /\ UNCHANGED <<env, clock, reply, response, homeworks, error>>

\* Handle that retries at once: the sleep is in the success path only
Handle_RetryingAtOnce ==
    /\ pc = "Handling"
    /\ \E bot_raises \in BOOLEAN :
        LET message == FailureMessage(error)
            sm == send_message(bot_raises)
        IN  /\ cur' = [cur EXCEPT
                        !.handled = TRUE,
                        !.sends = Append(@, [kind |-> "failure",
                                             text |-> message,
                                             attempts |-> sm.attempts,
                                             delivered |-> sm.delivered])]
            /\ propagating' = (propagating \/ sm.raised)
    /\ pc' = "Fetching"
    /\ UNCHANGED <<env, current_timestamp, clock, reply, response, homeworks,
                   error>>

\* lines 150-153
Handle ==
    /\ pc = "Handling"
    /\ \E bot_raises \in BOOLEAN :
        LET message == FailureMessage(error)
            sm == send_message(bot_raises)
        IN  /\ cur' = [cur EXCEPT
                        !.handled = TRUE,
                        !.sends = Append(@, [kind |-> "failure",
                                             text |-> message,
                                             attempts |-> sm.attempts,
                                             delivered |-> sm.delivered])]
            /\ propagating' = (propagating \/ sm.raised)
    /\ pc' = "Sleeping"
    /\ UNCHANGED <<env, current_timestamp, clock, reply, response, homeworks,
                   error>>

\* what is kept of a cycle once it is over
CycleSummary(c) ==
    [NoCycle EXCEPT !.n = c.n, !.ts_before = c.ts_before,
                    !.from_date = c.from_date, !.now = c.now,
                    !.handled = c.handled, !.advanced = c.advanced,
                    !.sleeps = c.sleeps, !.slept = c.slept]

\* Sleep of a loop that runs once: main returns after the first cycle
Sleep_Once ==
    /\ pc = "Sleeping"
    /\ clock' = clock + RETRY_TIME
    /\ cur' = [CycleSummary(cur) EXCEPT !.sleeps = @ + 1,
                                        !.slept = @ + RETRY_TIME]
    /\ pc' = "Exited"
    /\ reply' = NoReply
    /\ response' = None
    /\ homeworks' = None
    /\ error' = NoError
    /\ UNCHANGED <<env, current_timestamp, propagating>>

\* lines 154-155, and back to `while True` unless an exception is leaving.
\* `error` is unbound when its handler ends; `response`, `homeworks` and the
\* reply are dead here, each being assigned (lines 140, 141, 61) before it is
\* read again.
Sleep ==
    /\ pc = "Sleeping"
    /\ clock' = clock + RETRY_TIME
    /\ cur' = [CycleSummary(cur) EXCEPT !.sleeps = @ + 1,
                                        !.slept = @ + RETRY_TIME]
    /\ pc' = IF propagating THEN "Crashed" ELSE "Fetching"
    /\ reply' = NoReply
    /\ response' = None
    /\ homeworks' = None
    /\ error' = NoError
    /\ UNCHANGED <<env, current_timestamp, propagating>>

Next ==
    \/ Startup
    \/ Fetch
    \/ Validate
    \/ Notify
    \/ Advance
    \/ Handle
    \/ Sleep

Spec == Init /\ [][Next]_vars

\* every call of the loop returns: no step is postponed forever
FairSpec == Spec /\ WF_vars(Next)

-----------------------------------------------------------------------------
(* Vocabulary of the properties *)

LoopStates ==
    {"Fetching", "Validating", "Notifying", "Advancing", "Handling", "Sleeping"}

\* a cycle is in progress: its fetch has been made, its sleep has not
InCycle == pc \in LoopStates \ {"Fetching"}

\* the cycle has done all its work and is about to sleep
CycleDone == pc = "Sleeping" /\ cur.n > 0

FetchRaised == cur.fetch_exc # NoError
ValidRaised == cur.valid_exc # NoError
FormatRaised == cur.format_exc # NoError
CycleFailed == FetchRaised \/ ValidRaised \/ FormatRaised

\* check_response was entered and returned
ValidOK == cur.validated /\ ~ValidRaised

OneSend(kind) ==
    /\ Len(cur.sends) = 1
    /\ cur.sends[1].kind = kind
    /\ cur.sends[1].attempts = 1

AllPresent ==
    \A k \in {"PRACTICUM_TOKEN", "TELEGRAM_TOKEN", "TELEGRAM_CHAT_ID"} :
        env[k] \notin {None, PyStr("")}

-----------------------------------------------------------------------------
(* C1 - timestamp on a failed cycle *)

\* the fetch that follows a failed cycle: cur is that cycle, cur' the next
FetchAfterFailure == pc = "Fetching" /\ cur.handled /\ cur'.n = cur.n + 1

\* C1 as stated: a cycle in which fetch, validation or formatting raises
\* leaves current_timestamp as it was, and the next cycle's fetch is issued
\* with that same from_date (the one the failed cycle sent).  Stated for
\* integer timestamps.
C1_NextFetchSameFromDate ==
    /\ [](CycleDone /\ CycleFailed => current_timestamp = cur.ts_before)
    /\ [][FetchAfterFailure /\ cur.ts_before.type = "int" =>
            /\ cur'.from_date = cur.ts_before
            /\ cur'.from_date = cur.from_date]_vars

\* C1 amended: a cycle in which fetch, validation or formatting raises leaves
\* current_timestamp as it was and the next fetch is called with it; the
\* from_date sent is that timestamp when it is truthy, and the wall-clock
\* time of the later fetch when it is zero or None.
C1_TimestampKeptOnFailure ==
    /\ [](CycleDone /\ CycleFailed =>
            /\ current_timestamp = cur.ts_before
            /\ cur.handled /\ ~cur.advanced)
    /\ [][FetchAfterFailure =>
            /\ cur'.ts_before = cur.ts_before
            /\ Truthy(cur.ts_before) =>
                /\ cur'.from_date = cur.ts_before
                /\ cur'.from_date = cur.from_date
            /\ ~Truthy(cur.ts_before) =>
                /\ cur'.from_date = PyInt(clock)
                /\ cur'.from_date # cur.from_date]_vars

\* the second cycle still asks from the start time, while the clock is one
\* interval later: the first cycle failed, and the second fails too
C1_Witness ==
    /\ InCycle
    /\ cur.n = 2
    /\ FetchRaised
    /\ cur.ts_before = PyInt(StartTime)
    /\ cur.from_date = PyInt(StartTime)
    /\ cur.now = StartTime + RETRY_TIME

-----------------------------------------------------------------------------
(* C2 - a non-empty homeworks list *)

\* C2 as stated: a cycle whose response passes validation with a non-empty
\* homeworks list sends exactly one content notification and moves
\* current_timestamp to the response's current_date.
C2_NonEmptyAlwaysNotifies ==
    CycleDone /\ ValidOK /\ Truthy(DictGet(response, "homeworks")) =>
        /\ OneSend("content")
        /\ current_timestamp = DictGet(response, "current_date")

\* C2 amended: in such a cycle only homeworks[0] is formatted; when its
\* formatting succeeds exactly one notification is attempted, a content one
\* whose text is that formatting, and current_timestamp becomes the
\* response's current_date; when it raises no content notification is made.
C2_FirstHomeworkOnly ==
    CycleDone /\ ValidOK /\ Truthy(DictGet(response, "homeworks")) =>
        LET first == DictGet(response, "homeworks").items[1]
        IN  /\ cur.formatted = <<first>>
            /\ ~parse_status(first).raised =>
                /\ OneSend("content")
                /\ cur.sends[1].text = parse_status(first).value.s
                /\ current_timestamp = DictGet(response, "current_date")
            /\ parse_status(first).raised =>
                /\ OneSend("failure")
                /\ current_timestamp = cur.ts_before

C2_Witness ==
    /\ CycleDone
    /\ ValidOK
    /\ Len(DictGet(response, "homeworks").items) = 2
    /\ DictGet(response, "homeworks").items[2] # EmptyDict
    /\ OneSend("content")
    /\ cur.sends[1].delivered
    /\ current_timestamp = PyInt(MaxDate)

-----------------------------------------------------------------------------
(* C3 - an empty homeworks list *)

\* C3: a cycle whose response is valid with an empty homeworks list attempts
\* no notification at all and still moves current_timestamp to the response's
\* current_date.
C3_EmptyListSilentAdvance ==
    CycleDone /\ ValidOK /\ DictGet(response, "homeworks") = PyList(<<>>) =>
        /\ cur.sends = <<>>
        /\ cur.formatted = <<>>
        /\ ~cur.handled
        /\ current_timestamp = DictGet(response, "current_date")

C3_Witness ==
    /\ CycleDone
    /\ ValidOK
    /\ DictGet(response, "homeworks") = PyList(<<>>)
    /\ cur.sends = <<>>
    /\ cur.ts_before = PyInt(StartTime)
    /\ current_timestamp = PyInt(MaxDate)

-----------------------------------------------------------------------------
(* C4 - a failed cycle *)

\* C4: a cycle in which fetch, validation or formatting raises attempts
\* exactly one notification, the failure diagnostic, and no content
\* notification; every decoded response that lacks `homeworks` or
\* `current_date` makes such a cycle.
C4_OneFailureNotification ==
    /\ CycleDone /\ CycleFailed => OneSend("failure")
    /\ /\ CycleDone
       /\ ~FetchRaised
       /\ response.type = "dict"
       /\ ~(HasKey(response, "homeworks") /\ HasKey(response, "current_date"))
       => /\ ValidRaised
          /\ cur.formatted = <<>>
          /\ OneSend("failure")

C4_Witness ==
    /\ CycleDone
    /\ response = PyDict([current_date |-> PyInt(MaxDate)])
    /\ ValidRaised
    /\ OneSend("failure")

-----------------------------------------------------------------------------
(* C5 - the loop never ends *)

\* C5: once the startup check has passed main stays in the loop for ever,
\* and whatever fetch, validation, formatting and the bot do, a cycle that
\* has started reaches Sleeping and Sleeping is followed by the next
\* Fetching.  (The model starts at most MaxCycles cycles.)
C5_LoopRunsForever ==
    /\ [][(pc \in LoopStates) => (pc' \in LoopStates)]_vars
    /\ [](pc = "Fetching" /\ cur.n < MaxCycles => <>(pc = "Sleeping"))
    /\ [](InCycle => <>(pc = "Sleeping"))
    /\ [](pc = "Sleeping" => <>(pc = "Fetching"))

C5_Witness ==
    /\ pc = "Fetching"
    /\ cur.n = 2
    /\ cur.handled
    /\ ~propagating

-----------------------------------------------------------------------------
(* C6 - a failing notifier *)

\* C6: a failure of the bot's send never leaves send_message: no exception
\* is ever propagating out of the try statement, a cycle whose content send
\* failed still completes as a successful cycle (no failure diagnostic,
\* timestamp advanced), a cycle whose failure send failed still goes to
\* Sleeping, and no cycle makes a second attempt.
C6_SendFailureSwallowed ==
    /\ ~propagating
    /\ pc # "Crashed"
    /\ Len(cur.sends) <= 1
    /\ \A i \in DOMAIN cur.sends :
        /\ cur.sends[i].attempts = 1
        /\ ~cur.sends[i].delivered /\ cur.sends[i].kind = "content" =>
            /\ pc \in {"Advancing", "Sleeping"}
            /\ ~cur.handled
            /\ CycleDone =>
                /\ cur.advanced
                /\ current_timestamp = DictGet(response, "current_date")
        /\ ~cur.sends[i].delivered /\ cur.sends[i].kind = "failure" =>
            pc = "Sleeping"

C6_Witness ==
    /\ CycleDone
    /\ Len(cur.sends) = 1
    /\ cur.sends[1].kind = "content"
    /\ ~cur.sends[1].delivered
    /\ cur.advanced

-----------------------------------------------------------------------------
(* C7 - one sleep of RETRY_TIME per cycle *)

\* C7: every cycle, failed or not, ends with exactly one sleep of RETRY_TIME
\* seconds: no sleep happens inside a cycle, and when the next fetch is due
\* the cycle before it has slept once, for RETRY_TIME, whether or not it
\* went through the handler.
C7_OneFixedSleepPerCycle ==
    /\ InCycle => cur.sleeps = 0 /\ cur.slept = 0
    /\ pc = "Fetching" /\ cur.n > 0 =>
        /\ cur.sleeps = 1
        /\ cur.slept = RETRY_TIME

C7_Witness ==
    /\ pc = "Fetching"
    /\ cur.n = 2
    /\ cur.handled
    /\ cur.sleeps = 1
    /\ cur.slept = RETRY_TIME

-----------------------------------------------------------------------------
(* C8 - the startup check *)

\* C8: when one of the three identifiers is absent or empty main exits
\* before the loop: no fetch is made and no notification attempted; when
\* all three are present main does not exit and enters the loop.
C8_StartupCheck ==
    /\ ~AllPresent =>
        /\ pc \in {"Idle", "Exited"}
        /\ cur = NoCycle
        /\ current_timestamp = None
    /\ AllPresent => pc \in {"Idle"} \cup LoopStates

C8_Witness ==
    /\ pc = "Exited"
    /\ env.PRACTICUM_TOKEN = PyStr("token")
    /\ env.TELEGRAM_TOKEN = PyStr("token")
    /\ env.TELEGRAM_CHAT_ID = PyStr("")

-----------------------------------------------------------------------------
(* C9 - a request that fails *)

\* C9: when the request returns a status other than 200 or the transport
\* fails, get_api_answer raises EmptyAPIResponseError without parsing the
\* body, validation and formatting are not entered in that cycle, and the
\* cycle attempts the failure diagnostic.
C9_BadStatusFailsFetch ==
    InCycle /\ (~reply.transport_ok \/ reply.status_code # HTTPStatusOK) =>
        /\ cur.fetch_exc = EmptyAPIResponseError
        /\ ~cur.json_parsed
        /\ ~cur.validated
        /\ cur.formatted = <<>>
        /\ pc \in {"Handling", "Sleeping"}
        /\ pc = "Sleeping" => OneSend("failure")

C9_Witness ==
    /\ CycleDone
    /\ reply.transport_ok
    /\ reply.status_code = 500
    /\ ~cur.json_parsed
    /\ OneSend("failure")

-----------------------------------------------------------------------------
(* C10 - the type of the timestamp *)

\* C10: a response is accepted only if homeworks is a list and current_date
\* an integer, so that current_timestamp is an integer in every state of the
\* loop.
C10_TimestampIsInteger ==
    /\ InCycle /\ ValidOK =>
        /\ DictGet(response, "homeworks").type = "list"
        /\ DictGet(response, "current_date").type = "int"
    /\ pc \in LoopStates => current_timestamp.type = "int"

-----------------------------------------------------------------------------
(* C11 - what parse_status does with a record *)

\* the fields of a list entry; an entry that is no mapping has none
NameOf(hw) == IF hw.type = "dict" THEN DictGet(hw, "homework_name") ELSE None
StatusOf(hw) == IF hw.type = "dict" THEN DictGet(hw, "status") ELSE None

InCatalog(st) ==
    st.type = "str" /\ st.s \in {"approved", "reviewing", "rejected"}

NoContentSend == \A i \in DOMAIN cur.sends : cur.sends[i].kind # "content"

\* C11: formatting an entry whose status is absent or not one of approved,
\* reviewing, rejected raises, whatever its name, and no content notification
\* is made of it; formatting a record with a non-empty name and a status of
\* the catalog returns the message of line 117, "Izmenilsya status proverki
\* raboty", the name in double quotes, a full stop and the catalog text of
\* that status, which is the text handed to the notifier.
C11_FormatByStatus ==
    \A i \in DOMAIN cur.formatted :
        LET hw == cur.formatted[i]
        IN  /\ ~InCatalog(StatusOf(hw)) =>
                /\ FormatRaised
                /\ NoContentSend
            /\ InCatalog(StatusOf(hw)) /\ NameOf(hw).type = "str"
               /\ NameOf(hw).s # "" =>
                /\ ~FormatRaised
                /\ OneSend("content")
                /\ cur.sends[1].text =
                      "Izmenilsya status proverki raboty \"" \o NameOf(hw).s
                      \o "\". " \o HOMEWORK_STATUSES[StatusOf(hw).s]

C11_Witness ==
    /\ CycleDone
    /\ cur.formatted =
         <<PyDict([homework_name |-> PyStr("hw2"), status |-> PyStr("reviewing")])>>
    /\ OneSend("content")
    /\ cur.sends[1].text =
         "Izmenilsya status proverki raboty \"hw2\". Rabota vzyata na proverku revyuerom."

-----------------------------------------------------------------------------
(* C12 - what check_response returns *)

\* C12 as stated: when validation succeeds the value returned is the response
\* mapping that was passed in, with homeworks and current_date still present.
\* Stated for responses whose current_date is an integer.
C12_ValidateReturnsResponse ==
    InCycle /\ ValidOK /\ DictGet(response, "current_date").type = "int" =>
        /\ homeworks = response
        /\ homeworks.type = "dict"
        /\ HasKey(homeworks, "homeworks")
        /\ HasKey(homeworks, "current_date")

\* C12 amended: when validation succeeds the value returned is the value of
\* the response's `homeworks` key, a list, as it stands in the response; the
\* response is the decoded body, as it was, with both keys present.
C12_ValidateReturnsHomeworks ==
    InCycle /\ ValidOK =>
        /\ homeworks = DictGet(response, "homeworks")
        /\ homeworks.type = "list"
        /\ response = reply.body
        /\ HasKey(response, "homeworks")
        /\ HasKey(response, "current_date")

C12_Witness ==
    /\ pc = "Notifying"
    /\ ValidOK
    /\ Len(homeworks.items) = MaxHomeworks
    /\ homeworks.items[1] =
         PyDict([homework_name |-> PyStr("hw1"), status |-> PyStr("rejected")])
    /\ DictGet(response, "current_date") = PyInt(MaxDate)

-----------------------------------------------------------------------------
(* C13 - a 200 reply whose body is not JSON *)

BodyNotJSON ==
    reply.transport_ok /\ reply.status_code = HTTPStatusOK /\ ~reply.json_ok

\* C13 as stated: on a 200 reply whose body is not valid JSON the fetch
\* raises a malformed-response error, which is not the error raised for
\* other statuses and transport failures.
C13_MalformedErrorDistinct ==
    InCycle /\ BodyNotJSON =>
        /\ FetchRaised
        /\ cur.fetch_exc # EmptyAPIResponseError

\* C13 amended: on a 200 reply whose body is not valid JSON the fetch, having
\* tried to decode the body, raises EmptyAPIResponseError, the same error as
\* for other statuses and transport failures; validation is not entered and
\* the cycle ends with the failure diagnostic.
C13_MalformedIsEmptyAPIResponse ==
    InCycle /\ BodyNotJSON =>
        /\ cur.json_parsed
        /\ cur.fetch_exc = EmptyAPIResponseError
        /\ ~cur.validated
        /\ pc \in {"Handling", "Sleeping"}
        /\ pc = "Handling" => error = EmptyAPIResponseError
        /\ pc = "Sleeping" =>
            /\ OneSend("failure")
            /\ cur.sends[1].text = FailureMessage(EmptyAPIResponseError)

C13_Witness ==
    /\ CycleDone
    /\ BodyNotJSON
    /\ cur.json_parsed
    /\ cur.fetch_exc = EmptyAPIResponseError
    /\ OneSend("failure")

-----------------------------------------------------------------------------
(* C14 - the order of the checks of check_response *)

\* C14: the first failing check decides the error of validation: a decoded
\* body that is no mapping gives TypeError; a mapping that lacks `homeworks`
\* or `current_date` gives KeyError, also when the `homeworks` it has is no
\* list; a mapping with both keys whose `homeworks` is no list gives
\* TypeError; any other response passes.
C14_FirstFailingCheckDecides ==
    InCycle /\ cur.validated =>
        IF response.type # "dict"
        THEN cur.valid_exc.name = "TypeError"
        ELSE IF ~(HasKey(response, "homeworks")
                  /\ HasKey(response, "current_date"))
        THEN cur.valid_exc.name = "KeyError"
        ELSE IF DictGet(response, "homeworks").type # "list"
        THEN cur.valid_exc.name = "TypeError"
        ELSE ~ValidRaised

\* `homeworks` is there and is no list, `current_date` is missing: KeyError
C14_Witness ==
    /\ CycleDone
    /\ response = PyDict([homeworks |-> None])
    /\ cur.valid_exc = KeyError
    /\ OneSend("failure")

-----------------------------------------------------------------------------
(* C15 - the order of the checks of parse_status *)

\* C15: for a first entry that is a record (a mapping, or nothing), the
\* checks of formatting apply in order: an empty or absent record gives
\* ValueError; otherwise an absent or empty homework_name gives KeyError,
\* whatever the status; otherwise a status that is absent or not in the
\* catalog gives KeyError; otherwise formatting succeeds.  A cycle whose
\* first record is {} is therefore a failed cycle (handler entered, no
\* content notification, timestamp not advanced), not a silent one.
C15_FormatChecksInOrder ==
    \A i \in DOMAIN cur.formatted :
        LET hw == cur.formatted[i]
        IN  hw.type \in {"dict", "NoneType"} =>
                /\ IF ~Truthy(hw)
                   THEN cur.format_exc.name = "ValueError"
                   ELSE IF ~Truthy(NameOf(hw))
                   THEN cur.format_exc.name = "KeyError"
                   ELSE IF ~InCatalog(StatusOf(hw))
                   THEN cur.format_exc.name = "KeyError"
                   ELSE ~FormatRaised
                /\ hw = EmptyDict =>
                    /\ pc \in {"Handling", "Sleeping"}
                    /\ NoContentSend
                    /\ ~cur.advanced
                    /\ pc = "Sleeping" => OneSend("failure")

-----------------------------------------------------------------------------
(* C16 - the from_date of a request *)

\* C16: every request carries from_date equal to the timestamp the fetch was
\* given when that is a value other than zero, and the wall-clock time of
\* the fetch exactly when the timestamp is absent (None) or zero; so no
\* request carries a zero or absent from_date, and the request that follows
\* a response with current_date = 0 carries the wall-clock time, not the
\* stored timestamp.
C16_FromDateSubstitution ==
    InCycle =>
        /\ cur.ts_before \notin {None, PyInt(0)} =>
            cur.from_date = cur.ts_before
        /\ cur.ts_before \in {None, PyInt(0)} =>
            /\ cur.from_date = PyInt(cur.now)
            /\ cur.from_date # cur.ts_before
        /\ cur.from_date \notin {None, PyInt(0)}

-----------------------------------------------------------------------------
(* C17 - validation has no effect on the state *)

\* C17: validating a well-formed response a second time gives what the first
\* validation gave (the response is as it was, so check_response applied to
\* it again returns the list bound to `homeworks`), and the validation step
\* changes neither current_timestamp nor the response, the environment, the
\* clock or the notifications made.
C17_ValidationStateFree ==
    /\ [](InCycle /\ ValidOK =>
            /\ check_response(response) = Returned(homeworks)
            /\ response = reply.body)
    /\ [][pc = "Validating" =>
            /\ current_timestamp' = current_timestamp
            /\ response' = response
            /\ env' = env
            /\ clock' = clock
            /\ cur'.sends = cur.sends
            /\ cur'.advanced = cur.advanced]_vars

C17_Witness ==
    /\ pc = "Notifying"
    /\ cur.n = 2
    /\ ValidOK
    /\ Len(homeworks.items) = MaxHomeworks
    /\ check_response(response) = Returned(homeworks)
    /\ current_timestamp = PyInt(MaxDate)
    /\ cur.ts_before = PyInt(MaxDate)

-----------------------------------------------------------------------------
(* C18 - the order of the stages of a cycle *)

\* C18: a cycle goes through its stages in the order Fetching, Validating,
\* Notifying, Sleeping: Validating is entered only from Fetching and only
\* when the fetch returned, Notifying only from Validating and only when
\* validation returned, Sleeping only at the end (after line 148 or after
\* the handler) and Fetching only from Idle or Sleeping.  So validation never
\* runs in a cycle whose fetch raised, and neither formatting nor a content
\* notification happens in a cycle whose fetch or validation raised.
C18_StagesInOrder ==
    /\ [][/\ pc' = "Validating" =>
                pc = "Fetching" /\ cur'.fetch_exc = NoError
          /\ pc' = "Notifying" =>
                pc = "Validating" /\ cur'.validated /\ cur'.valid_exc = NoError
          /\ pc' = "Sleeping" => pc \in {"Advancing", "Handling"}
          /\ pc' = "Fetching" => pc \in {"Idle", "Sleeping"}
          /\ pc = "Fetching" => pc' \in {"Validating", "Handling"}]_vars
    /\ [](cur.validated => ~FetchRaised)
    /\ [](cur.formatted # <<>> => ~FetchRaised /\ ValidOK)
    /\ [](~NoContentSend => ~FetchRaised /\ ValidOK /\ ~FormatRaised)

C18_Witness ==
    /\ CycleDone
    /\ ~FetchRaised
    /\ cur.validated
    /\ cur.valid_exc = TypeError
    /\ cur.formatted = <<>>
    /\ NoContentSend
    /\ cur.handled

-----------------------------------------------------------------------------
(* C19 - one notification per cycle at most *)

\* C19: a cycle attempts at most one notification, tried once: never a
\* content notification and a failure diagnostic both; once the content
\* notification has been attempted the handler is not entered in that cycle,
\* and the handler's diagnostic is the only notification of its cycle.
C19_AtMostOneNotification ==
    /\ Len(cur.sends) <= 1
    /\ \A i, j \in DOMAIN cur.sends : cur.sends[i].kind = cur.sends[j].kind
    /\ \A i \in DOMAIN cur.sends : cur.sends[i].attempts = 1
    /\ ~NoContentSend =>
        /\ ~cur.handled
        /\ pc \in {"Advancing", "Sleeping"}
        /\ error = NoError
    /\ InCycle /\ cur.handled => OneSend("failure")

C19_Witness ==
    /\ CycleDone
    /\ cur.n = MaxCycles
    /\ OneSend("content")
    /\ cur.sends[1].delivered
    /\ cur.advanced
    /\ ~cur.handled

-----------------------------------------------------------------------------
(* C20 - a content notification that was not delivered *)

LostContent ==
    \E i \in DOMAIN cur.sends :
        cur.sends[i].kind = "content" /\ ~cur.sends[i].delivered

\* C20: a cycle whose fetch, validation and formatting succeeded ends with
\* current_timestamp equal to the response's current_date, whether the
\* content notification was delivered or not, and without the handler.  A
\* notification that was not delivered is not kept: the cycle after it
\* starts with nothing to send and makes its request with that current_date
\* as its timestamp, the end of the window the lost notification belonged
\* to; whatever a cycle sends is the formatting of its own response.
C20_AdvanceDespiteLostSend ==
    /\ [](CycleDone /\ ~CycleFailed /\ cur.formatted # <<>> =>
            /\ OneSend("content")
            /\ cur.advanced
            /\ ~cur.handled
            /\ current_timestamp = DictGet(response, "current_date"))
    /\ [](~NoContentSend =>
            cur.sends[1].text =
                parse_status(DictGet(response, "homeworks").items[1]).value.s)
    /\ [][pc = "Sleeping" /\ LostContent =>
            /\ pc' = "Fetching"
            /\ current_timestamp' = DictGet(response, "current_date")
            /\ cur'.sends = <<>>
            /\ cur'.formatted = <<>>]_vars
    /\ [][pc = "Fetching" =>
            /\ cur'.ts_before = current_timestamp
            /\ cur'.sends = <<>>
            /\ Truthy(current_timestamp) =>
                cur'.from_date = current_timestamp]_vars

\* the second cycle asks from the current_date of the first, whose content
\* notification was lost
C20_Witness ==
    /\ CycleDone
    /\ LostContent
    /\ cur.n = 2
    /\ cur.ts_before = PyInt(MaxDate)
    /\ cur.from_date = PyInt(MaxDate)
    /\ current_timestamp = PyInt(0)

====
